---- MODULE Spec2Model ----
(***************************************************************************)
(* Model of the autoplay fallback sequencer (js/autoplay-enhancer.js,      *)
(* class AutoplayEnhancer) together with the media handle it drives.       *)
(*                                                                         *)
(* One action is one event-loop task: the handler that the event starts   *)
(* plus every continuation that runs before control returns to the event  *)
(* loop (an await of an already settled value resumes in the same task).  *)
(* A handler is written as a function from the world it finds to the      *)
(* world it leaves, so that the statements of one task compose in the     *)
(* order of the source; a handler that calls play() yields the set of     *)
(* worlds it can leave, one per behaviour of that call.                   *)
(*                                                                         *)
(* Escalations on the handle are sequential: the class has one entry      *)
(* point per load (onStreamReady) and a new escalation is started only    *)
(* when the previous one has returned.  Direct invocations of              *)
(* testAutoplaySupport may overlap each other and an escalation.           *)
(*                                                                         *)
(* The handle is written by the sequencer alone: page scripts and the     *)
(* user's media controls are outside the model.  A handle is attached to  *)
(* a container or detached (parentElement null) for its whole life.       *)
(*                                                                         *)
(* The page glue (js/player.js) is a second state machine, PageSpec: the   *)
(* two globals player and currentUrl, the URL input, the load button and   *)
(* the error banner, driven by the page's event handlers and by the        *)
(* events of the playback library.  The glue never constructs the          *)
(* sequencer, so each specification leaves the other's state alone.        *)
(***************************************************************************)
EXTENDS Integers, Sequences, FiniteSets, TLC

\* ---------------------------------------------------------------- bounds
MaxRuns == 2        \* escalations started on the handle
MaxCalls == 2       \* direct invocations of testAutoplaySupport
MaxClicks == 2      \* click handlers awaiting their play() at one time
MaxLoads == 3       \* loadVideo() calls on the page

\* ------------------------------------------------------ program constants
PauseMs == 500                      \* pause between strategies
ReadyDelayMs == 100                 \* delay of the on-ready hook
delays == <<1000, 2000, 3000>>      \* backoff of the delayed strategy

\* Variant of fallbackStrategies: the prompt is listed before the delayed attempts.
fallbackStrategies_PromptSecond == <<"immediate", "prompt", "delayed">>

\* The strategy list built by the constructor.
fallbackStrategies == <<"immediate", "delayed", "prompt">>

\* Values urlParams.get(...) can return ("null": the parameter is absent).
ParamValues == {"true", "false", "null"}

\* What a call of play() does at the call: hands out a pending result or throws.
PlayKinds == {"promise", "throw"}
\* The probe additionally tells apart a play() that returns no pending result.
ProbeKinds == {"promise", "none", "throw"}

RunIds == 1..MaxRuns
Calls == 1..MaxCalls

VARIABLES
    autoplaySupported,  \* this.autoplaySupported: "null", "true" or "false"
    probePlays,         \* play() calls made on synthetic probe elements
    lastProbe,          \* how the probe play() that finished last ended
    muted,              \* video.muted
    hasParent,          \* video.parentElement is an element (not null)
    overlays,           \* overlays mounted in the container, by creating run
    headStyles,         \* <style> elements appended to document.head
    removeCalls,        \* overlay.remove() calls, per overlay
    clickPending,       \* click handlers awaiting their play(), per overlay
    clickWins,          \* click handlers whose play() succeeded, per overlay
    nRuns,              \* escalations started so far
    run,                \* the escalation in flight, or the last one
    call,               \* direct invocations of testAutoplaySupport
    page                \* the page glue: globals, form elements, library

vars == <<autoplaySupported, probePlays, lastProbe, muted, hasParent, overlays, headStyles,
          removeCalls, clickPending, clickWins, nRuns, run, call, page>>

\* ------------------------------------------------------------- page record
\* A text is a URL-like body, possibly padded with white space.
Bodies == {"", "abc", "ftp://h/a.mpd", "http://h/a.mpd", "https://h/b.mpd"}
Texts == [pad : BOOLEAN, body : Bodies]
EmptyText == [pad |-> FALSE, body |-> ""]

\* The page before DOMContentLoaded: let player = null; let currentUrl = ''.
\* source, streamUp: the library holds a source; it has announced its stream.
\* log: the calls made on the player.  last: how the last handler ended.
NoPage ==
    [ready |-> FALSE, player |-> FALSE, currentUrl |-> EmptyText,
     urlValue |-> EmptyText, btnDisabled |-> FALSE, btnLoading |-> FALSE,
     error |-> "none", border |-> "initial",
     source |-> FALSE, streamUp |-> FALSE, loads |-> 0, log |-> <<>>,
     last |-> "none"]

\* ------------------------------------------------------------ run record
\* pc: idle | scheduled | probe | immediate | pause | delay | delayedPlay | done
\* result: none | true | false | rejected
NoRun ==
    [id |-> 0, pc |-> "idle", ap |-> "null", um |-> "null", i |-> 0, k |-> 0,
     timer |-> 0, result |-> "none", plays |-> 0, outcomes |-> <<>>,
     muteWrites |-> 0, firstPlay |-> <<>>, started |-> <<>>, resolved |-> 0,
     mounts |-> 0, dom |-> 0, waited |-> <<>>, pauses |-> 0,
     overlayAtReturn |-> FALSE]

NewRun(id, ap, um) == [NoRun EXCEPT !.id = id, !.ap = ap, !.um = um]

\* The part of the state one escalation task reads and writes.
World ==
    [sup |-> autoplaySupported, probes |-> probePlays, last |-> lastProbe,
     muted |-> muted, overlays |-> overlays, styles |-> headStyles, me |-> run]

Commit(w) ==
    /\ autoplaySupported' = w.sup
    /\ probePlays' = w.probes
    /\ lastProbe' = w.last
    /\ muted' = w.muted
    /\ overlays' = w.overlays
    /\ headStyles' = w.styles
    /\ run' = w.me

\* ------------------------------------------------------ testAutoplaySupport
\* The synchronous part: the cached verdict, or one probe play(), which
\* hands out a pending result, returns none, or throws (end: how the probe
\* ended, when it ended in this part).
ProbeStart(sup, probes) ==
    IF sup # "null"
    THEN {[sup |-> sup, probes |-> probes, pending |-> FALSE, end |-> "cached"]}
    ELSE {IF kind = "promise"
          THEN [sup |-> sup, probes |-> probes + 1, pending |-> TRUE, end |-> "pending"]
          ELSE [sup |-> "false", probes |-> probes + 1, pending |-> FALSE, end |-> kind]
          : kind \in ProbeKinds}

\* How the last finished probe ended, after one more synchronous part.
LastAfter(last, p) == IF p.end \in {"none", "throw"} THEN p.end ELSE last

\* Variant of ProbeSettled: a rejected probe counts as support.
ProbeSettled_RejectedSupported(ok) == "true"

\* The verdict stored when the awaited probe settles.
ProbeSettled(ok) == IF ok THEN "true" ELSE "false"

\* How an awaited probe ended.
ProbeEnd(ok) == IF ok THEN "resolved" ELSE "rejected"

\* ------------------------------------------------------------ the handle
\* video.play() called by the escalation.
Play(w) ==
    [w EXCEPT !.me.plays = @ + 1,
              !.me.firstPlay = IF @ = <<>>
                               THEN <<[muted |-> w.muted, writes |-> w.me.muteWrites]>>
                               ELSE @]

\* The play attempt settled (ok) or failed (rejected or thrown).
Settled(w, ok) == [w EXCEPT !.me.outcomes = Append(@, ok)]

\* A timer is armed and the task ends.
Wait(w, pc, ms) == [w EXCEPT !.me.pc = pc, !.me.timer = ms]

\* attemptAutoplay returns v ("rejected": it throws).
Return(w, v) ==
    [w EXCEPT !.me.pc = "done", !.me.result = v, !.me.timer = 0,
              !.me.overlayAtReturn = w.me.id \in w.overlays]

\* ---------------------------------------------------------- the main loop
\* Variant of AfterStrategy: the success of a strategy is not looked at.
AfterStrategy_IgnoresSuccess(w, success) ==
    LET w1 == [w EXCEPT !.me.resolved = @ + 1] IN
    IF w.me.i < Len(fallbackStrategies) THEN Wait(w1, "pause", PauseMs)
    ELSE Return(w1, "false")

\* Variant of AfterStrategy: the loop runs to length - 1.
AfterStrategy_StopsOneEarly(w, success) ==
    LET w1 == [w EXCEPT !.me.resolved = @ + 1] IN
    IF success THEN Return(w1, "true")
    ELSE IF w.me.i < Len(fallbackStrategies) - 1 THEN Wait(w1, "pause", PauseMs)
    ELSE Return(w1, "false")

\* After `await strategy(video)`: return true, pause, or fall out of the loop.
AfterStrategy(w, success) ==
    LET w1 == [w EXCEPT !.me.resolved = @ + 1] IN
    IF success THEN Return(w1, "true")
    ELSE IF w.me.i < Len(fallbackStrategies) THEN Wait(w1, "pause", PauseMs)
    ELSE Return(w1, "false")

\* Strategy 1: one play attempt, which throws or is awaited.
immediateAutoplay(w) ==
    {IF kind = "throw" THEN AfterStrategy(Settled(Play(w), FALSE), FALSE)
     ELSE [Play(w) EXCEPT !.me.pc = "immediate"]
     : kind \in PlayKinds}

\* Strategy 2: arms the first delay.
delayedAutoplay(w) == {Wait([w EXCEPT !.me.k = 1], "delay", delays[1])}

\* Strategy 2, catch block: the next delay, or return false after the last.
DelayedFailed(w) ==
    IF w.me.k < Len(delays)
    THEN Wait([w EXCEPT !.me.k = @ + 1], "delay", delays[w.me.k + 1])
    ELSE AfterStrategy(w, FALSE)

\* Variant of userInteractionPrompt: the overlay is built but never appended.
userInteractionPrompt_NotAppended(w) ==
    LET w1 == [w EXCEPT !.styles = @ + 1, !.me.dom = @ + 1] IN
    {IF hasParent THEN AfterStrategy(w1, FALSE) ELSE Return(w1, "rejected")}

\* Strategy 3: style into the head, overlay into the container, return false.
userInteractionPrompt(w) ==
    LET w1 == [w EXCEPT !.styles = @ + 1, !.me.dom = @ + 1] IN
    {IF hasParent
     THEN AfterStrategy([w1 EXCEPT !.overlays = @ \cup {w.me.id},
                                   !.me.mounts = @ + 1, !.me.dom = @ + 1], FALSE)
     ELSE Return(w1, "rejected")}

\* One iteration of the loop: strategy i + 1 is called.
NextStrategy(w) ==
    LET n == w.me.i + 1
        name == fallbackStrategies[n]
        w1 == [w EXCEPT !.me.i = n, !.me.timer = 0,
                        !.me.started = Append(@, name)]
    IN  CASE name = "immediate" -> immediateAutoplay(w1)
          [] name = "delayed" -> delayedAutoplay(w1)
          [] name = "prompt" -> userInteractionPrompt(w1)

\* ---------------------------------------------------------- attemptAutoplay
\* Variant of AutoplayRequested: only an explicit "false" switches autoplay off.
AutoplayRequested_UnlessFalse(ap) == ap # "false"

AutoplayRequested(ap) == ap = "true"

\* Variant of MuteFor: everything but "true" mutes.
MuteFor_MutedUnlessTrue(um, cur) == um # "true"

\* Variant of MuteFor: the two branches are swapped.
MuteFor_Swapped(um, cur) ==
    IF um = "true" THEN TRUE ELSE IF um = "false" THEN FALSE ELSE cur

\* The mute flag after the unmute parameter is applied.
MuteFor(um, cur) ==
    IF um = "true" THEN FALSE ELSE IF um = "false" THEN TRUE ELSE cur

MuteWritten(um) == um \in {"true", "false"}

\* Variant of attemptAutoplay: an unsupported verdict ends the run.
attemptAutoplay_GatedByVerdict(w) ==
    IF ~AutoplayRequested(w.me.ap) THEN {Return(w, "false")}
    ELSE
        LET w1 == [w EXCEPT !.muted = MuteFor(w.me.um, @),
                            !.me.muteWrites = IF MuteWritten(w.me.um) THEN @ + 1 ELSE @]
            Probed(p) ==
                LET w2 == [w1 EXCEPT !.sup = p.sup, !.probes = p.probes,
                                     !.last = LastAfter(@, p)]
                IN  IF p.pending THEN {[w2 EXCEPT !.me.pc = "probe"]}
                    ELSE IF p.sup = "false" THEN {Return(w2, "false")}
                    ELSE NextStrategy(w2)
        IN  UNION {Probed(p) : p \in ProbeStart(w1.sup, w1.probes)}

\* attemptAutoplay up to its first suspension.
attemptAutoplay(w) ==
    IF ~AutoplayRequested(w.me.ap) THEN {Return(w, "false")}
    ELSE
        LET w1 == [w EXCEPT !.muted = MuteFor(w.me.um, @),
                            !.me.muteWrites = IF MuteWritten(w.me.um) THEN @ + 1 ELSE @]
            Probed(p) ==
                LET w2 == [w1 EXCEPT !.sup = p.sup, !.probes = p.probes,
                                     !.last = LastAfter(@, p)]
                IN  IF p.pending THEN {[w2 EXCEPT !.me.pc = "probe"]}
                    ELSE NextStrategy(w2)
        IN  UNION {Probed(p) : p \in ProbeStart(w1.sup, w1.probes)}

\* ------------------------------------------------------------------ Init
Init ==
    /\ autoplaySupported = "null"
    /\ probePlays = 0
    /\ lastProbe = "never"
    /\ muted \in BOOLEAN
    /\ hasParent \in BOOLEAN
    /\ overlays = {}
    /\ headStyles = 0
    /\ removeCalls = [o \in RunIds |-> 0]
    /\ clickPending = [o \in RunIds |-> 0]
    /\ clickWins = [o \in RunIds |-> 0]
    /\ nRuns = 0
    /\ run = NoRun
    /\ call = [c \in Calls |-> [pc |-> "idle", ret |-> "none"]]
    /\ page = NoPage

OutsideRun == <<hasParent, removeCalls, clickPending, clickWins, call, page>>

CanStart == run.pc \in {"idle", "done"} /\ nRuns < MaxRuns

\* --------------------------------------------------------------- actions
\* attemptAutoplay(video, urlParams) called directly.
AttemptAutoplay ==
    /\ CanStart
    /\ \E ap \in ParamValues, um \in ParamValues :
          \E w \in attemptAutoplay([World EXCEPT !.me = NewRun(nRuns + 1, ap, um)]) :
             Commit(w)
    /\ nRuns' = nRuns + 1
    /\ UNCHANGED OutsideRun

\* Variant of OnStreamReady: the mute state is applied before the timer.
OnStreamReady_MutesAtOnce ==
    /\ CanStart
    /\ \E ap \in ParamValues, um \in ParamValues :
          /\ run' = [NewRun(nRuns + 1, ap, um) EXCEPT !.pc = "scheduled", !.timer = ReadyDelayMs]
          /\ muted' = MuteFor(um, muted)
    /\ nRuns' = nRuns + 1
    /\ UNCHANGED <<autoplaySupported, probePlays, lastProbe, overlays,
                   headStyles, OutsideRun>>

\* onStreamReady(video, urlParams): arms the timer and returns.
OnStreamReady ==
    /\ CanStart
    /\ \E ap \in ParamValues, um \in ParamValues :
          run' = [NewRun(nRuns + 1, ap, um) EXCEPT !.pc = "scheduled", !.timer = ReadyDelayMs]
    /\ nRuns' = nRuns + 1
    /\ UNCHANGED <<autoplaySupported, probePlays, lastProbe, muted, overlays,
                   headStyles, OutsideRun>>

\* The on-ready timer fires: attemptAutoplay is called.
ReadyTimerFires ==
    /\ run.pc = "scheduled"
    /\ \E w \in attemptAutoplay([World EXCEPT !.me.timer = 0]) : Commit(w)
    /\ UNCHANGED <<nRuns, OutsideRun>>

\* The probe awaited by the escalation settles; the loop starts.
RunProbeSettles ==
    /\ run.pc = "probe"
    /\ \E ok \in BOOLEAN :
          \E w \in NextStrategy([World EXCEPT !.sup = ProbeSettled(ok),
                                                !.last = ProbeEnd(ok)]) : Commit(w)
    /\ UNCHANGED <<nRuns, OutsideRun>>

\* The immediate attempt's play() settles.
ImmediateSettles ==
    /\ run.pc = "immediate"
    /\ \E ok \in BOOLEAN : Commit(AfterStrategy(Settled(World, ok), ok))
    /\ UNCHANGED <<nRuns, OutsideRun>>

\* The pause between strategies elapses: the next strategy is called.
PauseElapses ==
    /\ run.pc = "pause"
    /\ \E w \in NextStrategy([World EXCEPT !.me.pauses = @ + 1]) : Commit(w)
    /\ UNCHANGED <<nRuns, OutsideRun>>

\* A delay of the delayed strategy elapses: play() is called.
DelayElapses ==
    /\ run.pc = "delay"
    /\ \E hk \in PlayKinds :
          LET w == Play([World EXCEPT !.me.waited = Append(@, run.timer), !.me.timer = 0])
          IN  Commit(IF hk = "throw" THEN DelayedFailed(Settled(w, FALSE))
                     ELSE [w EXCEPT !.me.pc = "delayedPlay"])
    /\ UNCHANGED <<nRuns, OutsideRun>>

\* Variant of DelayedSettles: a successful attempt does not leave the for loop.
DelayedSettles_KeepsRetrying ==
    /\ run.pc = "delayedPlay"
    /\ \E ok \in BOOLEAN : Commit(DelayedFailed(Settled(World, ok)))
    /\ UNCHANGED <<nRuns, OutsideRun>>

\* A delayed attempt's play() settles.
DelayedSettles ==
    /\ run.pc = "delayedPlay"
    /\ \E ok \in BOOLEAN :
          Commit(IF ok THEN AfterStrategy(Settled(World, TRUE), TRUE)
                 ELSE DelayedFailed(Settled(World, FALSE)))
    /\ UNCHANGED <<nRuns, OutsideRun>>

RECURSIVE SumOver(_, _)
SumOver(f, S) == IF S = {} THEN 0 ELSE LET x == CHOOSE y \in S : TRUE IN f[x] + SumOver(f, S \ {x})

\* Click handlers suspended at `await video.play()`.
PendingClicks == SumOver(clickPending, RunIds)

\* A click on a mounted overlay: its handler calls play().
Click(o) ==
    /\ o \in overlays
    /\ PendingClicks < MaxClicks
    /\ \E hk \in PlayKinds :
          clickPending' = IF hk = "throw" THEN clickPending
                          ELSE [clickPending EXCEPT ![o] = @ + 1]
    /\ UNCHANGED <<autoplaySupported, probePlays, lastProbe, muted, hasParent,
                   overlays, headStyles, removeCalls, clickWins, nRuns, run, call, page>>

\* Variant of ClickSettles: overlay.remove() sits after the try/catch.
ClickSettles_AlwaysRemoves(o) ==
    /\ clickPending[o] > 0
    /\ clickPending' = [clickPending EXCEPT ![o] = @ - 1]
    /\ \E ok \in BOOLEAN :
          clickWins' = IF ok THEN [clickWins EXCEPT ![o] = @ + 1] ELSE clickWins
    /\ removeCalls' = [removeCalls EXCEPT ![o] = @ + 1]
    /\ overlays' = overlays \ {o}
    /\ UNCHANGED <<autoplaySupported, probePlays, lastProbe, muted, hasParent,
                   headStyles, nRuns, run, call, page>>

\* A click handler's play() settles: on success overlay.remove().
ClickSettles(o) ==
    /\ clickPending[o] > 0
    /\ clickPending' = [clickPending EXCEPT ![o] = @ - 1]
    /\ \E ok \in BOOLEAN :
          IF ok
          THEN /\ clickWins' = [clickWins EXCEPT ![o] = @ + 1]
               /\ removeCalls' = [removeCalls EXCEPT ![o] = @ + 1]
               /\ overlays' = overlays \ {o}
          ELSE UNCHANGED <<clickWins, removeCalls, overlays>>
    /\ UNCHANGED <<autoplaySupported, probePlays, lastProbe, muted, hasParent,
                   headStyles, nRuns, run, call, page>>

\* testAutoplaySupport() invoked directly.
TestAutoplaySupport(c) ==
    /\ call[c].pc = "idle"
    /\ \A d \in Calls : d < c => call[d].pc # "idle"
    /\ \E p \in ProbeStart(autoplaySupported, probePlays) :
          /\ autoplaySupported' = p.sup
          /\ probePlays' = p.probes
          /\ lastProbe' = LastAfter(lastProbe, p)
          /\ call' = [call EXCEPT ![c] = IF p.pending THEN [pc |-> "await", ret |-> "none"]
                                         ELSE [pc |-> "done", ret |-> p.sup]]
    /\ UNCHANGED <<muted, hasParent, overlays, headStyles, removeCalls, clickPending,
                   clickWins, nRuns, run, page>>

\* The probe awaited by a direct invocation settles.
CallProbeSettles(c) ==
    /\ call[c].pc = "await"
    /\ \E ok \in BOOLEAN :
          /\ autoplaySupported' = ProbeSettled(ok)
          /\ lastProbe' = ProbeEnd(ok)
          /\ call' = [call EXCEPT ![c] = [pc |-> "done", ret |-> ProbeSettled(ok)]]
    /\ UNCHANGED <<probePlays, muted, hasParent, overlays, headStyles, removeCalls,
                   clickPending, clickWins, nRuns, run, page>>

Next ==
    \/ AttemptAutoplay
    \/ OnStreamReady
    \/ ReadyTimerFires
    \/ RunProbeSettles
    \/ ImmediateSettles
    \/ PauseElapses
    \/ DelayElapses
    \/ DelayedSettles
    \/ \E o \in RunIds : Click(o)
    \/ \E o \in RunIds : ClickSettles(o)
    \/ \E c \in Calls : TestAutoplaySupport(c)
    \/ \E c \in Calls : CallProbeSettles(c)

Spec == Init /\ [][Next]_vars

\* Timers fire and the play attempts of the escalation settle; nothing is
\* assumed about clicks, direct invocations or further loads.
FairSpec ==
    /\ Spec
    /\ WF_vars(ReadyTimerFires)
    /\ WF_vars(RunProbeSettles)
    /\ WF_vars(ImmediateSettles)
    /\ WF_vars(PauseElapses)
    /\ WF_vars(DelayElapses)
    /\ WF_vars(DelayedSettles)

TypeOK ==
    /\ autoplaySupported \in {"null", "true", "false"}
    /\ muted \in BOOLEAN
    /\ overlays \subseteq RunIds
    /\ run.pc \in {"idle", "scheduled", "probe", "immediate", "pause", "delay",
                   "delayedPlay", "done"}
    /\ run.result \in {"none", "true", "false", "rejected"}

\* ================================================================ page glue
\* String.prototype.trim(): the padding goes, the body stays.
Trim(t) == [t EXCEPT !.pad = FALSE]

\* The protocol new URL(string) reports; "throws" where the parser rejects
\* the string.  The parser itself strips leading and trailing white space.
Protocol(t) ==
    CASE t.body = "http://h/a.mpd" -> "http:"
      [] t.body = "https://h/b.mpd" -> "https:"
      [] t.body = "ftp://h/a.mpd" -> "ftp:"
      [] OTHER -> "throws"

isValidUrl(t) == Protocol(t) \in {"http:", "https:"}

showError(p, message) == [p EXCEPT !.error = message]

clearError(p) == [p EXCEPT !.error = "none"]

resetLoadButton(p) == [p EXCEPT !.btnDisabled = FALSE, !.btnLoading = FALSE]

\* player.reset(): the library drops its source.
PlayerReset(p) ==
    [p EXCEPT !.source = FALSE, !.streamUp = FALSE,
              !.log = Append(@, [op |-> "reset", url |-> EmptyText, ok |-> TRUE])]

\* player.initialize(video, url, true) returns or throws.
PlayerInitialize(p, url, ok) ==
    [p EXCEPT !.source = ok, !.streamUp = FALSE,
              !.log = Append(@, [op |-> "initialize", url |-> url, ok |-> ok])]

\* The catch block of loadVideo.
LoadFailed(p) ==
    [resetLoadButton(showError(p, "Failed to load video")) EXCEPT !.last = "caught"]

\* loadVideo(): the pages it can leave, one per behaviour of initialize.
loadVideo(p) ==
    LET url == Trim(p.urlValue)
        p0 == [p EXCEPT !.loads = @ + 1, !.last = "refused"]
    IN  IF url.body = "" THEN {showError(p0, "Please enter a valid MPD URL")}
        ELSE IF ~isValidUrl(url) THEN {showError(p0, "Please enter a valid URL")}
        ELSE
            LET p1 == [clearError(p0) EXCEPT !.btnDisabled = TRUE, !.btnLoading = TRUE]
                p2 == IF p1.player /\ p1.currentUrl # EmptyText
                      THEN PlayerReset(p1) ELSE p1
            IN  IF ~p2.player THEN {LoadFailed(p2)}
                ELSE {[PlayerInitialize(p2, url, TRUE) EXCEPT !.currentUrl = url,
                                                               !.last = "loading"],
                      LoadFailed(PlayerInitialize(p2, url, FALSE))}

\* urlParams.get('link'): a text, or null where the parameter is absent.
LinkParams == [present : BOOLEAN, text : Texts]

\* checkUrlParameters(): an empty link parameter counts as none.
checkUrlParameters(p, link) ==
    IF ~link.present \/ link.text = EmptyText THEN {[p EXCEPT !.last = "ready"]}
    ELSE LET p1 == [p EXCEPT !.urlValue = link.text, !.last = "ready"]
         IN  IF isValidUrl(link.text) THEN loadVideo(p1)
             ELSE {showError(p1, "Invalid MPD URL provided in link parameter")}

\* initializePlayer(): the player is created where Media Source is supported.
initializePlayer(p, mse) ==
    IF mse THEN [p EXCEPT !.player = TRUE]
    ELSE showError(p, "Your browser does not support Media Source Extensions")

Enhancer == <<autoplaySupported, probePlays, lastProbe, muted, hasParent, overlays,
              headStyles, removeCalls, clickPending, clickWins, nRuns, run, call>>

\* The DOMContentLoaded listener.
DOMContentLoaded ==
    /\ ~page.ready
    /\ \E mse \in BOOLEAN, link \in LinkParams :
          page' \in checkUrlParameters(
                        [initializePlayer(page, mse) EXCEPT !.ready = TRUE], link)
    /\ UNCHANGED Enhancer

\* The input listener of the URL field: the user has edited the text.
Input(t) ==
    /\ page.ready
    /\ t # page.urlValue
    /\ page' = [page EXCEPT !.urlValue = t,
                            !.btnDisabled = ~isValidUrl(t),
                            !.border = IF t # EmptyText /\ ~isValidUrl(t)
                                       THEN "#dc3545" ELSE "#e1e5e9",
                            !.last = "input"]
    /\ UNCHANGED Enhancer

\* The keypress listener of the URL field, for the Enter key.
KeypressEnter ==
    /\ page.ready
    /\ page.loads < MaxLoads
    /\ page' \in loadVideo(page)
    /\ UNCHANGED Enhancer

\* loadSample(url).
loadSample(t) ==
    /\ page.ready
    /\ page.loads < MaxLoads
    /\ page' \in loadVideo([page EXCEPT !.urlValue = t])
    /\ UNCHANGED Enhancer

\* The library emits STREAM_INITIALIZED for the source it holds.
onStreamInitialized ==
    /\ page.source /\ ~page.streamUp
    /\ page' = resetLoadButton([page EXCEPT !.streamUp = TRUE,
                                            !.last = "STREAM_INITIALIZED"])
    /\ UNCHANGED Enhancer

\* The library emits ERROR for the source it holds.
onError ==
    /\ page.source
    /\ page' = resetLoadButton(showError([page EXCEPT !.last = "ERROR"],
                                          "player error"))
    /\ UNCHANGED Enhancer

PageInit == Init /\ ~muted /\ hasParent

PageNext ==
    \/ DOMContentLoaded
    \/ \E t \in Texts : Input(t)
    \/ KeypressEnter
    \/ \E t \in Texts : loadSample(t)
    \/ onStreamInitialized
    \/ onError

PageSpec == PageInit /\ [][PageNext]_vars

\* ================================================================ claims
Called == run.pc \notin {"idle", "scheduled"}

IsPrefix(s, t) == Len(s) <= Len(t) /\ \A j \in 1..Len(s) : s[j] = t[j]

\* C1: a call of attemptAutoplay whose autoplay parameter is absent or not
\* "true" returns false at once, whatever the unmute parameter: it has made no
\* play attempt on the handle, has not written the mute flag, and has changed
\* nothing in the DOM (no style, no overlay).
C1_NotRequestedIsNoOp ==
    (Called /\ run.ap # "true") =>
        /\ run.pc = "done" /\ run.result = "false"
        /\ run.plays = 0 /\ run.started = <<>>
        /\ run.muteWrites = 0
        /\ run.dom = 0 /\ run.mounts = 0

\* C1 witness: a call without the autoplay parameter, asked to unmute a muted
\* handle, has returned false and the handle is still muted.
C1_Witness ==
    /\ run.pc = "done" /\ run.ap = "null" /\ run.um = "true"
    /\ run.result = "false" /\ muted

\* C2 (as claimed): once testAutoplaySupport has been invoked, exactly one
\* synthetic play attempt has been made in total, however the invocations
\* interleave with the pending probe results.
C2_ExactlyOneProbePlay ==
    (\E c \in Calls : call[c].pc # "idle") => probePlays = 1

\* C3: in a run the strategies are started in the order immediate, delayed,
\* prompt, without a gap or a repeat; a strategy is started only when every
\* earlier one has resolved, and a play attempt that has not settled belongs
\* to the one strategy that is started and not yet resolved; a run that
\* returns false has started all three.
C3_StrategiesInOrder ==
    /\ IsPrefix(run.started, <<"immediate", "delayed", "prompt">>)
    /\ run.resolved <= Len(run.started)
    /\ Len(run.started) <= run.resolved + 1
    /\ Len(run.outcomes) <= run.plays
    /\ run.plays <= Len(run.outcomes) + 1
    /\ Len(run.outcomes) < run.plays => run.resolved = Len(run.started) - 1
    /\ (run.ap = "true" /\ run.result = "false") => Len(run.started) = 3

\* C3 witness: a run has started and resolved all three strategies.
C3_Witness ==
    run.started = <<"immediate", "delayed", "prompt">> /\ run.resolved = 3

\* C4 (as claimed): a run whose immediate attempt and three delayed attempts
\* all failed has returned false and has mounted exactly one overlay.
C4_AllFailedMountsOneOverlay ==
    (run.pc = "done" /\ run.outcomes = <<FALSE, FALSE, FALSE, FALSE>>) =>
        (run.result = "false" /\ run.mounts = 1)

\* C5 (as claimed): at most one overlay is mounted in the container.
C5_AtMostOneOverlay == Cardinality(overlays) <= 1

\* C6 (as claimed): an overlay whose click handler started playback has been
\* removed by exactly one remove() call and is no longer mounted.
C6_RemovedExactlyOnce ==
    \A o \in RunIds : removeCalls[o] >= 1 => (removeCalls[o] = 1 /\ o \notin overlays)

\* C7 (as claimed): a run that has ended has returned a boolean; it never
\* rejects, whatever the play attempts do and whether or not the handle has
\* a container.
C7_NeverRejects == run.pc = "done" => run.result \in {"true", "false"}

\* C8 (as claimed): whenever a run has returned false, its overlay was mounted
\* in the container at the moment it returned.
C8_FalseMeansOverlay == run.result = "false" => run.overlayAtReturn

\* C8 (amended): whenever a run with autoplay requested has returned false, the
\* overlay it mounted was in the container at the moment it returned.
C8_RequestedFalseMeansOverlay ==
    (run.ap = "true" /\ run.result = "false") =>
        (run.overlayAtReturn /\ run.mounts = 1)

\* C8 witness: a requested run has returned false with its overlay mounted.
C8_Witness ==
    /\ run.ap = "true" /\ run.result = "false"
    /\ run.overlayAtReturn /\ run.id \in overlays

\* C9: with autoplay requested and unmute "true" (resp. "false"), the mute flag
\* the first play attempt of the run finds is false (resp. true); the run wrote
\* the flag once, before that attempt, and never writes it again.
C9_MuteSetBeforeFirstPlay ==
    (run.ap = "true" /\ run.um \in {"true", "false"}) =>
        /\ run.muteWrites <= 1
        /\ run.firstPlay # <<>> =>
              /\ run.firstPlay[1].muted = (run.um = "false")
              /\ run.firstPlay[1].writes = 1
              /\ run.muteWrites = 1

\* C9 witness: a run asked to unmute has made all four play attempts, the
\* first of which found the handle unmuted.
C9_Witness ==
    /\ run.ap = "true" /\ run.um = "true" /\ run.plays = 4
    /\ run.firstPlay # <<>> /\ ~run.firstPlay[1].muted

\* C10: if the first play attempt of a run, the immediate one, succeeded, the
\* run has returned true having started only the immediate strategy: no delay
\* was armed or waited for, no further play attempt was made, and the prompt
\* changed nothing in the DOM.
C10_ImmediateSuccessEndsRun ==
    (run.outcomes # <<>> /\ run.outcomes[1]) =>
        /\ run.pc = "done" /\ run.result = "true"
        /\ run.started = <<"immediate">>
        /\ run.plays = 1 /\ run.k = 0 /\ run.timer = 0 /\ run.waited = <<>>
        /\ run.mounts = 0 /\ run.dom = 0

\* C10 witness: the immediate attempt succeeded and the run returned true.
C10_Witness ==
    run.outcomes = <<TRUE>> /\ run.result = "true" /\ run.started = <<"immediate">>

\* C11: the delayed strategy waits 1 s, 2 s, 3 s in that order and makes one
\* play attempt after each elapsed delay; a delay is armed only after every
\* earlier attempt failed; once the k-th delayed attempt succeeds the run has
\* returned true with exactly k delays waited, no timer armed and the prompt
\* never called.
C11_DelaysInOrderStopAtSuccess ==
    /\ IsPrefix(run.waited, <<1000, 2000, 3000>>)
    /\ run.pc = "delay" => run.timer = <<1000, 2000, 3000>>[Len(run.waited) + 1]
    /\ run.waited # <<>> =>
          /\ run.plays = Len(run.waited) + 1
          /\ Len(run.outcomes) >= Len(run.waited)
          /\ \A j \in 1..Len(run.waited) : ~run.outcomes[j]
    /\ \A j \in 2..Len(run.outcomes) :
          run.outcomes[j] =>
              /\ j = Len(run.outcomes) /\ Len(run.waited) = j - 1
              /\ run.plays = j /\ run.timer = 0
              /\ run.pc = "done" /\ run.result = "true"
              /\ run.started = <<"immediate", "delayed">>
              /\ run.mounts = 0 /\ run.dom = 0

\* C11 witness: the attempt after the 1 s delay failed, the one after the 2 s
\* delay succeeded, and the run returned true without waiting 3 s.
C11_Witness ==
    /\ run.outcomes = <<FALSE, FALSE, TRUE>> /\ run.waited = <<1000, 2000>>
    /\ run.result = "true"

\* C13: a mounted overlay leaves the container only in a step in which one of
\* its click handlers' play attempts settles with success (the handler then
\* calls remove()); every other step, a failed click attempt included, leaves
\* it mounted, and no overlay is mounted while one of its clicks has succeeded.
C13_OverlayStaysUntilClickSucceeds ==
    /\ [](\A o \in overlays : clickWins[o] = 0)
    /\ [][\A o \in RunIds :
             /\ (o \in overlays /\ o \notin overlays') =>
                   /\ clickPending[o] > 0 /\ clickPending'[o] = clickPending[o] - 1
                   /\ clickWins'[o] = clickWins[o] + 1
                   /\ removeCalls'[o] = removeCalls[o] + 1
             /\ (o \in overlays /\ clickWins'[o] = clickWins[o]) => o \in overlays'
         ]_vars

\* C13 witness: an overlay mounted by an earlier run is still mounted after a
\* later run has ended, while a click on it awaits its play attempt.
C13_Witness ==
    \E o \in overlays : o < run.id /\ run.pc = "done" /\ clickPending[o] > 0
                        /\ clickWins[o] = 0

\* C15 (as claimed): once the verdict is no longer unknown, no step changes it.
C15_VerdictNeverChanges ==
    [][autoplaySupported # "null" => autoplaySupported' = autoplaySupported]_vars

\* C17: in every step taken while the current run is one with autoplay
\* requested and the unmute parameter neither "true" nor "false" (the call
\* itself included), the mute flag keeps its value, and the run has written
\* it zero times.
C17_UnspecifiedLeavesMute ==
    [][(run'.ap = "true" /\ run'.um \notin {"true", "false"}) =>
          (muted' = muted /\ run'.muteWrites = 0)]_vars

\* C17 witness: a run without the unmute parameter has gone through all four
\* failed play attempts and the prompt on a handle that is still unmuted.
C17_Witness ==
    /\ run.ap = "true" /\ run.um = "null" /\ run.pc = "done"
    /\ run.outcomes = <<FALSE, FALSE, FALSE, FALSE>> /\ ~muted

\* C12: a probe whose play attempt was rejected leaves the verdict unsupported,
\* and whatever the verdict is, a run with autoplay requested that is past its
\* probe has made the immediate play attempt first; when every attempt failed
\* it has gone on through the delayed strategy to the prompt.
C12_VerdictDoesNotGate ==
    /\ lastProbe = "rejected" => autoplaySupported = "false"
    /\ (run.ap = "true" /\ Called /\ run.pc # "probe") =>
          /\ autoplaySupported \in {"true", "false"}
          /\ run.plays >= 1 /\ run.started[1] = "immediate"
          /\ (run.pc = "done" /\ \A j \in 1..Len(run.outcomes) : ~run.outcomes[j]) =>
                (Len(run.outcomes) = 4 /\ Len(run.started) = 3)

\* C12 witness: the last probe was rejected, the verdict is unsupported, and a
\* requested run has made its immediate attempt and is waiting for the result.
C12_Witness ==
    /\ lastProbe = "rejected" /\ autoplaySupported = "false"
    /\ run.ap = "true" /\ run.pc = "immediate" /\ run.plays = 1

\* C16: the verdict is supported exactly when the probe that finished last
\* handed out a pending result that resolved, and unsupported exactly when it
\* returned none, threw, or its pending result was rejected; every finished
\* invocation returned a definite verdict (no invocation ends by throwing),
\* and a run that is past its probe finds a definite verdict.
C16_VerdictFromProbe ==
    /\ autoplaySupported = "true" <=> lastProbe = "resolved"
    /\ autoplaySupported = "false" <=> lastProbe \in {"rejected", "none", "throw"}
    /\ autoplaySupported = "null" <=> lastProbe = "never"
    /\ \A c \in Calls :
          /\ call[c].pc \in {"idle", "await", "done"}
          /\ call[c].pc = "done" <=> call[c].ret \in {"true", "false"}
    /\ (run.ap = "true" /\ Called /\ run.pc # "probe") => autoplaySupported # "null"

\* C16 witness: a direct invocation whose probe play() returned no pending
\* result has returned unsupported.
C16_Witness ==
    /\ lastProbe = "none" /\ call[1].pc = "done" /\ call[1].ret = "false"
    /\ probePlays = 1 /\ nRuns = 0

\* C18: every strategy after the first is called when one more pause has
\* elapsed; a pause is armed for 500 ms only after a strategy other than the
\* last has resolved with a failure; a run that returns true or returns from
\* the prompt does so with no timer armed; a run with autoplay requested that
\* returns false has taken both pauses.
C18_PauseBetweenStrategies ==
    /\ run.started # <<>> => run.pauses = Len(run.started) - 1
    /\ run.pc = "pause" =>
          /\ run.timer = 500
          /\ run.resolved = Len(run.started) /\ Len(run.started) < 3
          /\ run.outcomes # <<>> /\ ~run.outcomes[Len(run.outcomes)]
    /\ run.pc = "done" => run.timer = 0
    /\ (run.ap = "true" /\ run.result = "false") => run.pauses = 2

\* C18 witness: the delayed strategy has failed and the second pause is armed.
C18_Witness ==
    /\ run.pc = "pause" /\ run.pauses = 1 /\ run.timer = 500
    /\ run.started = <<"immediate", "delayed">>

\* C19: the step in which onStreamReady is invoked changes nothing but the
\* scheduling of one new run with a 100 ms timer; while that timer is armed the
\* run has done nothing (no play attempt, no strategy, no mute write, no DOM
\* change) and no step changes it, the mute flag or the head; the step in
\* which the timer fires calls attemptAutoplay for that same run with the
\* same autoplay and unmute parameters, and starts no other run.
C19_HookOnlySchedules ==
    /\ [](run.pc = "scheduled" =>
             /\ run.timer = 100 /\ run.result = "none"
             /\ run.plays = 0 /\ run.started = <<>>
             /\ run.muteWrites = 0 /\ run.dom = 0 /\ run.mounts = 0)
    /\ [][/\ (run'.pc = "scheduled" /\ run' # run) =>
                /\ run.pc \in {"idle", "done"}
                /\ run'.id = nRuns + 1 /\ nRuns' = nRuns + 1
                /\ UNCHANGED <<autoplaySupported, probePlays, lastProbe, muted,
                               overlays, headStyles, removeCalls, clickPending, call>>
          /\ (run.pc = "scheduled" /\ run'.pc = "scheduled") =>
                (run' = run /\ muted' = muted /\ headStyles' = headStyles)
          /\ (run.pc = "scheduled" /\ run'.pc # "scheduled") =>
                /\ run'.id = run.id /\ run'.ap = run.ap /\ run'.um = run.um
                /\ nRuns' = nRuns
      ]_vars

\* C19 witness: the hook has scheduled a second run, with autoplay requested,
\* on a handle whose container still holds the first run's overlay.
C19_Witness ==
    run.pc = "scheduled" /\ run.ap = "true" /\ run.id = 2 /\ overlays # {}

\* C20 (as claimed): a run makes at most four play attempts on the handle,
\* and, timers firing and play attempts settling, every run with autoplay
\* requested eventually resolves to a boolean, whether or not a click occurs.
C20_EveryRunResolves ==
    /\ [](run.plays <= 4)
    /\ (run.ap = "true" /\ Called) ~>
          (run.pc = "done" /\ run.result \in {"true", "false"})

\* ------------------------------------------------------- page glue claims
\* A load is in progress while the load button carries its loading state.
LoadInProgress == page.btnLoading

\* C21 (as claimed): while a load is in progress the load button is disabled,
\* whatever input events, Enter key presses and loadSample calls come in
\* between; and when the player announces its stream or an error, or
\* initialize throws, the load is over and the button is enabled again.
C21_DisabledWhileLoading ==
    /\ LoadInProgress => page.btnDisabled
    /\ page.last \in {"STREAM_INITIALIZED", "ERROR", "caught"} =>
          ~LoadInProgress /\ ~page.btnDisabled

\* The initialize calls in the log of calls made on the player.
Initializes == {n \in 1..Len(page.log) : page.log[n].op = "initialize"}

Returned == {n \in Initializes : page.log[n].ok}

\* The URL of the most recent initialize call that returned, empty if none.
LastReturnedUrl ==
    IF Returned = {} THEN EmptyText
    ELSE page.log[CHOOSE n \in Returned : \A m \in Returned : m <= n].url

\* C22 (as claimed): between any two initialize calls made on the player,
\* whether they return or throw, there is a player.reset(); and currentUrl is
\* the URL of the most recent initialize call that returned, empty if none.
C22_ResetBetweenInitializes ==
    /\ \A m, n \in Initializes :
          m < n => \E k \in (m + 1)..(n - 1) : page.log[k].op = "reset"
    /\ page.currentUrl = LastReturnedUrl
====
